---- MODULE Spec2Model ----
(***************************************************************************)
(* LMDBStore: a dictionary-like facade over an LMDB environment.  Keys are *)
(* MessagePack-serialized, values are MessagePack-serialized and then      *)
(* Zstandard-compressed.  The model keeps the committed bytes, the write   *)
(* transaction of a running set_multi, and the generators returned by      *)
(* keys/values/items/get_multi together with their read transactions.      *)
(* The environment is opened on a new path with the constructor's defaults *)
(* (readonly=False, lock=True): write transactions exclude each other and  *)
(* a read transaction sees the entries committed when it began.            *)
(*                                                                         *)
(* A closed handle can be followed by a new one on the same path, also a   *)
(* read-only one.                                                          *)
(*                                                                         *)
(* Spec       get, contains, set, del, set_multi; values of every type     *)
(* SpecIter   set, del, set_multi beside keys/values/items generators      *)
(* SpecMulti  set_multi beside get, contains and get_multi generators      *)
(* SpecOrder  set, del over three keys beside keys/values/items            *)
(* SpecCount  len, contains, get beside set, del, set_multi                *)
(* SpecLookup set, del beside get_multi generators                         *)
(* SpecDurable writes, flush, close, the end of the process, a new handle  *)
(* SpecClosed every call on one key beside close and a new handle          *)
(* SpecReadonly reads and writes on writable and read-only handles         *)
(* SpecRead   get, values, items, get_multi beside set of None and lists   *)
(* SpecWriters set_multi calls of two threads, one waiting for the other   *)
(* SpecFrame  every call on an open handle, two keys                       *)
(***************************************************************************)
EXTENDS Integers, Sequences, FiniteSets, TLC

----------------------------------------------------------------------------
(* Bounds *)

\* longest list a set_multi append may produce
MaxAcc == 2
\* longest keys/values argument of set_multi and get_multi
MaxBatch == 2

\* the generator objects
GenIds == {1}

----------------------------------------------------------------------------
(* Python values.  A value is a record [t, v]: t is the type, v the        *)
(* content (a number, a sequence of character codes, a sequence of values, *)
(* a sequence of <<key, value>> pairs).                                    *)

PyNone == [t |-> "nil", v |-> <<>>]
PyInt(n) == [t |-> "int", v |-> n]
PyStr(s) == [t |-> "str", v |-> s]
PyList(l) == [t |-> "list", v |-> l]
PyDict(m) == [t |-> "dict", v |-> m]
\* a raised exception, as the outcome of a call
Raise(e) == [t |-> "raise", v |-> e]
\* a bool returned by a call
PyBool(b) == [t |-> "bool", v |-> b]

\* the absence of bytes: what txn.get and cursor.get return for a missing key
NoBytes == <<-1>>

----------------------------------------------------------------------------
(* MessagePack *)

RECURSIVE serialize(_)
RECURSIVE packAll(_)
RECURSIVE packPairs(_)

\* msgpack.dumps: nil, positive fixint / uint8, negative fixint, fixstr,
\* fixarray, fixmap
serialize(item) ==
    CASE item.t = "nil" -> <<192>>
      [] item.t = "int" ->
            IF item.v >= 0 /\ item.v <= 127 THEN <<item.v>>
            ELSE IF item.v >= 128 THEN <<204, item.v>>
            ELSE <<256 + item.v>>
      [] item.t = "str" -> <<160 + Len(item.v)>> \o item.v
      [] item.t = "list" -> <<144 + Len(item.v)>> \o packAll(item.v)
      [] item.t = "dict" -> <<128 + Len(item.v)>> \o packPairs(item.v)

packAll(l) == IF l = <<>> THEN <<>> ELSE serialize(Head(l)) \o packAll(Tail(l))

packPairs(m) ==
    IF m = <<>> THEN <<>>
    ELSE serialize(Head(m)[1]) \o serialize(Head(m)[2]) \o packPairs(Tail(m))

RECURSIVE unpackOne(_, _)
RECURSIVE unpackMany(_, _, _, _)
RECURSIVE unpackPairs(_, _, _, _)

\* parse one object starting at byte i of b: [ok, val, next]
unpackOne(b, i) ==
    IF i > Len(b) THEN [ok |-> FALSE, val |-> PyNone, next |-> i]
    ELSE LET c == b[i] IN
      CASE c <= 127 -> [ok |-> TRUE, val |-> PyInt(c), next |-> i + 1]
        [] c >= 224 -> [ok |-> TRUE, val |-> PyInt(c - 256), next |-> i + 1]
        [] c = 192 -> [ok |-> TRUE, val |-> PyNone, next |-> i + 1]
        [] c = 204 ->
              IF i + 1 > Len(b) THEN [ok |-> FALSE, val |-> PyNone, next |-> i]
              ELSE [ok |-> TRUE, val |-> PyInt(b[i + 1]), next |-> i + 2]
        [] c >= 160 /\ c <= 191 ->
              LET n == c - 160 IN
              IF i + n > Len(b) THEN [ok |-> FALSE, val |-> PyNone, next |-> i]
              ELSE [ok |-> TRUE, val |-> PyStr(SubSeq(b, i + 1, i + n)),
                    next |-> i + n + 1]
        [] c >= 144 /\ c <= 159 -> unpackMany(b, i + 1, c - 144, <<>>)
        [] c >= 128 /\ c <= 143 -> unpackPairs(b, i + 1, c - 128, <<>>)
        [] OTHER -> [ok |-> FALSE, val |-> PyNone, next |-> i]

unpackMany(b, i, n, acc) ==
    IF n = 0 THEN [ok |-> TRUE, val |-> PyList(acc), next |-> i]
    ELSE LET r == unpackOne(b, i) IN
         IF ~r.ok THEN r ELSE unpackMany(b, r.next, n - 1, Append(acc, r.val))

unpackPairs(b, i, n, acc) ==
    IF n = 0 THEN [ok |-> TRUE, val |-> PyDict(acc), next |-> i]
    ELSE LET k == unpackOne(b, i) IN
         IF ~k.ok THEN k
         ELSE LET w == unpackOne(b, k.next) IN
              IF ~w.ok THEN w
              ELSE unpackPairs(b, w.next, n - 1, Append(acc, <<k.val, w.val>>))

\* msgpack.loads: the object, or an exception on truncated or trailing bytes
deserialize(item) ==
    LET r == unpackOne(item, 1) IN
    IF r.ok /\ r.next = Len(item) + 1 THEN r.val ELSE Raise("UnpackError")

----------------------------------------------------------------------------
(* Zstandard: a frame is the magic number followed by the content *)

ZstdMagic == <<40, 181, 47, 253>>

zstd_compress(data) == ZstdMagic \o data

\* [ok, data]
zstd_decompress(frame) ==
    IF Len(frame) >= Len(ZstdMagic) /\ SubSeq(frame, 1, Len(ZstdMagic)) = ZstdMagic
    THEN [ok |-> TRUE, data |-> SubSeq(frame, Len(ZstdMagic) + 1, Len(frame))]
    ELSE [ok |-> FALSE, data |-> <<>>]

compress(value) == zstd_compress(serialize(value))

\* decompress without the default: a missing value comes back as None
decompress_no_default(compressed_value) ==
    IF compressed_value = NoBytes \/ compressed_value = <<>>
    THEN PyNone
    ELSE LET d == zstd_decompress(compressed_value) IN
         IF d.ok THEN deserialize(d.data) ELSE Raise("ZstdError")

\* a missing or empty byte string gives a new empty list
decompress(compressed_value) ==
    IF compressed_value = NoBytes \/ compressed_value = <<>>
    THEN PyList(<<>>)
    ELSE LET d == zstd_decompress(compressed_value) IN
         IF d.ok THEN deserialize(d.data) ELSE Raise("ZstdError")

----------------------------------------------------------------------------
(* LMDB: keys are compared as byte strings (memcmp, then length) *)

\* a sorts strictly before b
BytesLess(a, b) ==
    \E i \in 1..(Len(a) + 1) :
        /\ i <= Len(b)
        /\ \A j \in 1..(i - 1) : a[j] = b[j]
        /\ (i = Len(a) + 1 \/ a[i] < b[i])

\* Transaction.get / Cursor.get: the stored bytes, or nothing
txn_get(view, key) == IF key \in DOMAIN view THEN view[key] ELSE NoBytes

\* Transaction.put / Cursor.put with overwrite
txn_put(view, key, value) ==
    [b \in (DOMAIN view) \cup {key} |-> IF b = key THEN value ELSE view[b]]

\* Transaction.delete: the remaining entries
txn_delete(view, key) == [b \in (DOMAIN view) \ {key} |-> view[b]]

\* Cursor.set_key: whether the key is present
cursor_set_key(view, key) == key \in DOMAIN view

\* a cursor walking backwards: the largest key before position cur
cursor_next_reverse(view, cur) ==
    LET before == {b \in DOMAIN view : cur = NoBytes \/ BytesLess(b, cur)} IN
    IF before = {} THEN NoBytes
    ELSE CHOOSE b \in before : \A c \in before : c = b \/ BytesLess(c, b)

\* Cursor.first / Cursor.next: the smallest key after position cur
\* (NoBytes: not yet positioned), or NoBytes at the end of the database
cursor_next(view, cur) ==
    LET after == {b \in DOMAIN view : cur = NoBytes \/ BytesLess(cur, b)} IN
    IF after = {} THEN NoBytes
    ELSE CHOOSE b \in after : \A c \in after : c = b \/ BytesLess(b, c)

\* owners of transactions: the writer, a generator, a single-key read
Writer == [who |-> "write", id |-> 0]
Reader(i) == [who |-> "generator", id |-> i]
OneShot == [who |-> "read", id |-> 0]

\* Environment.begin: the transaction joins the open transactions
env_begin(txns, who) == txns \cup {who}

\* the handle: an open environment, writable or read-only, or a closed one
Opened(readonly) == [st |-> "open", readonly |-> readonly]

\* Environment.begin of an environment that was opened writable although
\* readonly was asked for
env_begin_raises_writable(env, write) ==
    IF env.st = "closed" THEN Raise("Error") ELSE PyNone

\* what Environment.begin raises (PyNone: nothing): any transaction on a
\* closed environment, a write transaction on a read-only one
env_begin_raises(env, write) ==
    CASE env.st = "closed" -> Raise("Error")
      [] env.st = "open" /\ write /\ env.readonly -> Raise("ReadonlyError")
      [] OTHER -> PyNone

\* what Environment.sync raises: mdb_env_sync refuses a read-only
\* environment
env_sync_raises(env) ==
    CASE env.st = "closed" -> Raise("Error")
      [] env.st = "open" /\ env.readonly -> Raise("ReadonlyError")
      [] OTHER -> PyNone

\* Environment.stat reading the depth of the tree instead of its entries
env_stat_depth(view) ==
    [entries |-> IF view = <<>> THEN 0 ELSE 1]

\* Environment.stat: the statistics of the committed entries
env_stat(view) == [entries |-> Cardinality(DOMAIN view)]

\* Transaction.__exit__: commit on a normal exit, abort on an exception;
\* either way the transaction is released
txn_exit(txns, who) == txns \ {who}

----------------------------------------------------------------------------
(* Inputs *)

Key1 == PyInt(1)
KeyB == PyStr(<<98>>)
KeyAA == PyStr(<<97, 97>>)

\* every key given to a call; in byte order of the serialized keys
\* Key1 < KeyB < KeyAA
AllKeys == {Key1, KeyB, KeyAA}

\* the single-key and batch calls without generators: two keys, values of
\* every type
Keys == {KeyB, KeyAA}
Values == {PyNone, PyInt(200), PyList(<<PyInt(1)>>),
           PyDict(<<<<PyStr(<<97>>), PyInt(-1)>>>>)}
MultiValues == {PyInt(1), PyStr(<<120>>)}

\* the calls that run while generators are alive: two keys (three in
\* SpecOrder), one scalar and one list element
IterKeys == {KeyB, KeyAA}
IterValues == {PyInt(200)}
IterMultiValues == {PyInt(1)}

\* the calls counted by len and tested by contains: the values include the
\* empty list
CountValues == {PyList(<<>>), PyInt(200)}

\* the values read back by get, values, items and get_multi: None and the
\* empty list among them
ReadValues == {PyNone, PyList(<<>>), PyInt(200)}

\* the calls on a handle that is closed and opened again: one key
HandleKeys == {KeyB}

\* sequences over S of length lo..hi
SeqsOf(S, lo, hi) == UNION {[1..n -> S] : n \in lo..hi}

\* pairs <<keys, values>> of lists of the same length, up to MaxBatch
Batches(K, V) ==
    UNION {[1..n -> K] \X [1..n -> V] : n \in 0..MaxBatch}

\* pairs <<keys, values>> of lists of different lengths, up to MaxBatch
Mismatches(K, V) ==
    {kv \in SeqsOf(K, 0, MaxBatch) \X SeqsOf(V, 0, MaxBatch) :
        Len(kv[1]) # Len(kv[2])}

\* the arguments of set_multi and get_multi
CoreBatches == Batches(Keys, MultiValues)
CoreMismatches == Mismatches({KeyB}, {PyInt(1)})
IterBatches == Batches(IterKeys, IterMultiValues)
IterKeySeqs == SeqsOf(IterKeys, 0, MaxBatch)
HandleBatches == Batches(HandleKeys, IterMultiValues)
HandleKeySeqs == SeqsOf(HandleKeys, 0, MaxBatch)
\* get_multi asked for one key
FrameKeySeqs == SeqsOf(HandleKeys, 1, 1)
\* the calls of two threads append two different values to one key
WriterBatches == Batches(HandleKeys, MultiValues)

----------------------------------------------------------------------------
(* State *)

VARIABLES
    db,      \* committed entries of the environment: key bytes -> value bytes
    txns,    \* owners of the transactions that are open
    wtxn,    \* the write transaction of a running set_multi
    gen,     \* the generators returned by keys/values/items/get_multi
    last,    \* outcome of the latest call that completed
    hist,    \* per key, how its content was written (observer)
    env,     \* the handle: open (writable or read-only) or closed
    pend,    \* a set_multi call of another thread waiting for the writer lock
    flushed  \* the committed entries when flush last returned (observer)

vars == <<db, txns, wtxn, gen, last, hist, env, pend, flushed>>

NoTxn == [st |-> "none"]
NoGen == [st |-> "none"]
NoCall == [st |-> "none"]
NoFlush == [st |-> "none"]

\* what the latest call returned or raised.  For the observer, was: how the
\* key was written before a set (else "-"); n: the pairs a set_multi had
\* put when it ended (else 0)
Outcome(op, res) == [op |-> op, res |-> res, was |-> "-", n |-> 0]
OutcomeSet(was) == [op |-> "set", res |-> PyNone, was |-> was, n |-> 0]
OutcomeAt(op, res, n) == [op |-> op, res |-> res, was |-> "-", n |-> n]
\* a new handle was opened; was: the call before it
OutcomeOpen(before) == [op |-> "open", res |-> PyNone, was |-> before, n |-> 0]
\* a set_multi that had waited for the writer lock has committed n pairs
OutcomeWaited(n) == [op |-> "set_multi", res |-> PyNone, was |-> "waited", n |-> n]

\* observer records: how the content of a key came about and the value
\* expected there
Absent == [how |-> "absent", val |-> PyNone]
BySet(v) == [how |-> "set", val |-> v]
ByMulti(l) == [how |-> "multi", val |-> l]
Mixed(l) == [how |-> "mixed", val |-> l]

\* the observer's record of key after one set_multi pair: a list written
\* by set and then appended to is "mixed"
histAppend(h, value) ==
    CASE h.how = "absent" -> ByMulti(<<value>>)
      [] h.how = "multi" -> ByMulti(Append(h.val, value))
      [] h.how = "mixed" -> Mixed(Append(h.val, value))
      [] h.how = "set" -> Mixed(Append(h.val.v, value))

\* the value the observer expects get to return
Expected(h) ==
    CASE h.how = "absent" -> PyList(<<>>)
      [] h.how = "set" -> h.val
      [] OTHER -> PyList(h.val)

Init ==
    /\ db = <<>>
    /\ txns = {}
    /\ wtxn = NoTxn
    /\ gen = [i \in GenIds |-> NoGen]
    /\ last = Outcome("open", PyNone)
    /\ hist = [k \in AllKeys |-> Absent]
    /\ env = Opened(FALSE)
    /\ pend = NoCall
    /\ flushed = NoFlush

----------------------------------------------------------------------------
(* Single-key operations.  A write transaction waits for the writer lock, *)
(* so it begins only while no other write transaction is open.            *)

\* the value __getitem__ returns for key when the committed entries are view
getitem(view, key) == decompress(txn_get(view, serialize(key)))

\* membership decided by the value read: a key holding the empty list
\* counts as missing
contains_by_value(view, key) == getitem(view, key) # PyList(<<>>)

\* the value __contains__ returns
contains(view, key) == cursor_set_key(view, serialize(key))

GetItem(key) ==
    /\ LET err == env_begin_raises(env, FALSE) IN
       IF err = PyNone
       THEN /\ last' = Outcome("get", getitem(db, key))
            /\ txns' = txn_exit(env_begin(txns, OneShot), OneShot)
       ELSE /\ last' = Outcome("get", err)
            /\ UNCHANGED txns
    /\ UNCHANGED <<db, wtxn, gen, hist, env, pend, flushed>>

Contains(key) ==
    /\ LET err == env_begin_raises(env, FALSE) IN
       IF err = PyNone
       THEN /\ last' = Outcome("contains", PyBool(contains(db, key)))
            /\ txns' = txn_exit(env_begin(txns, OneShot), OneShot)
       ELSE /\ last' = Outcome("contains", err)
            /\ UNCHANGED txns
    /\ UNCHANGED <<db, wtxn, gen, hist, env, pend, flushed>>

\* __len__: the entry count of the environment's statistics
Length ==
    /\ last' = Outcome("len", IF env.st = "open"
                              THEN PyInt(env_stat(db).entries)
                              ELSE Raise("Error"))
    /\ UNCHANGED <<db, txns, wtxn, gen, hist, env, pend, flushed>>

\* __setitem__ putting with overwrite=False: a present key keeps its value
SetItem_no_overwrite(key, value) ==
    /\ Writer \notin txns
    /\ db' = IF serialize(key) \in DOMAIN db THEN db
             ELSE txn_put(db, serialize(key), compress(value))
    /\ txns' = txn_exit(env_begin(txns, Writer), Writer)
    /\ last' = OutcomeSet(hist[key].how)
    /\ hist' = [hist EXCEPT ![key] = BySet(value)]
    /\ UNCHANGED <<wtxn, gen, env, pend, flushed>>

\* __setitem__ putting a key next to the one it was given
SetItem_neighbour(key, value) ==
    /\ Writer \notin txns
    /\ db' = txn_put(txn_put(db, serialize(key), compress(value)),
                     serialize(key) \o serialize(key), compress(value))
    /\ txns' = txn_exit(env_begin(txns, Writer), Writer)
    /\ last' = OutcomeSet(hist[key].how)
    /\ hist' = [hist EXCEPT ![key] = BySet(value)]
    /\ UNCHANGED <<wtxn, gen, env, pend, flushed>>

\* __setitem__ that ignores the error of env.begin and writes all the same
SetItem_forced(key, value) ==
    /\ Writer \notin txns
    /\ db' = txn_put(db, serialize(key), compress(value))
    /\ UNCHANGED txns
    /\ last' = OutcomeSet(hist[key].how)
    /\ hist' = [hist EXCEPT ![key] = BySet(value)]
    /\ UNCHANGED <<wtxn, gen, env, pend, flushed>>

SetItem(key, value) ==
    /\ LET err == env_begin_raises(env, TRUE) IN
       IF err = PyNone
       THEN /\ Writer \notin txns
            /\ db' = txn_put(db, serialize(key), compress(value))
            /\ txns' = txn_exit(env_begin(txns, Writer), Writer)
            /\ last' = OutcomeSet(hist[key].how)
            /\ hist' = [hist EXCEPT ![key] = BySet(value)]
       ELSE /\ last' = Outcome("set", err)
            /\ UNCHANGED <<db, txns, hist>>
    /\ UNCHANGED <<wtxn, gen, env, pend, flushed>>

\* __delitem__ ignoring the result of txn.delete
DelItem_silent(key) ==
    /\ Writer \notin txns
    /\ txns' = txn_exit(env_begin(txns, Writer), Writer)
    /\ db' = txn_delete(db, serialize(key))
    /\ last' = Outcome("del", PyNone)
    /\ hist' = [hist EXCEPT ![key] = Absent]
    /\ UNCHANGED <<wtxn, gen, env, pend, flushed>>

DelItem(key) ==
    /\ LET err == env_begin_raises(env, TRUE) IN
       IF err = PyNone
       THEN /\ Writer \notin txns
            /\ txns' = txn_exit(env_begin(txns, Writer), Writer)
            /\ IF serialize(key) \in DOMAIN db
               THEN /\ db' = txn_delete(db, serialize(key))
                    /\ last' = Outcome("del", PyNone)
                    /\ hist' = [hist EXCEPT ![key] = Absent]
               ELSE /\ last' = Outcome("del", Raise("KeyError"))
                    /\ UNCHANGED <<db, hist>>
       ELSE /\ last' = Outcome("del", err)
            /\ UNCHANGED <<db, txns, hist>>
    /\ UNCHANGED <<wtxn, gen, env, pend, flushed>>

----------------------------------------------------------------------------
(* set_multi: the length check, then one write transaction in which every *)
(* pair reads the stored list, appends and writes back.  Other calls run  *)
(* between its steps.                                                     *)

\* number of positions of seq that hold x
Count(seq, x) == Cardinality({i \in DOMAIN seq : seq[i] = x})

\* length of the list stored at key, 0 if there is none
StoredLen(view, key) ==
    LET val == getitem(view, key) IN IF val.t = "list" THEN Len(val.v) ELSE 0

\* the appends of the call keep every stored list within MaxAcc
WithinAcc(keys) ==
    \A i \in DOMAIN keys : StoredLen(db, keys[i]) + Count(keys, keys[i]) <= MaxAcc

\* set_multi checking the lengths only after its first put was committed
SetMultiMismatch_late(keys, values) ==
    /\ Len(keys) # Len(values)
    /\ Writer \notin txns
    /\ db' = IF keys # <<>> /\ values # <<>>
             THEN txn_put(db, serialize(keys[1]), compress(PyList(<<values[1]>>)))
             ELSE db
    /\ last' = Outcome("set_multi", Raise("ValueError"))
    /\ UNCHANGED <<txns, wtxn, gen, hist, env, pend, flushed>>

SetMultiMismatch(keys, values) ==
    /\ Len(keys) # Len(values)
    /\ last' = Outcome("set_multi", Raise("ValueError"))
    /\ UNCHANGED <<db, txns, wtxn, gen, hist, env, pend, flushed>>

\* the write transaction of set_multi(keys, values) as it begins; waited:
\* whether the call had to wait for the writer lock
begin_write(keys, values, waited) ==
    [st |-> "open", keys |-> keys, values |-> values, pos |-> 0,
     view |-> db, pre |-> db, obs |-> hist, waited |-> waited]

\* the model follows one running set_multi: the next one begins when the
\* writer lock is free and the running one has returned
SetMultiBegin(keys, values) ==
    /\ Len(keys) = Len(values)
    /\ LET err == env_begin_raises(env, TRUE) IN
       IF err = PyNone
       THEN /\ Writer \notin txns
            /\ wtxn.st = "none"
            /\ WithinAcc(keys)
            /\ txns' = env_begin(txns, Writer)
            /\ wtxn' = begin_write(keys, values, FALSE)
            /\ UNCHANGED last
       ELSE /\ last' = Outcome("set_multi", err)
            /\ UNCHANGED <<txns, wtxn>>
    /\ UNCHANGED <<db, gen, hist, env, pend, flushed>>

\* set_multi called by another thread while a write transaction is open:
\* env.begin(write=True) waits for the writer lock
SetMultiBlocked(keys, values) ==
    /\ Len(keys) = Len(values)
    /\ env_begin_raises(env, TRUE) = PyNone
    /\ Writer \in txns
    /\ pend.st = "none"
    /\ pend' = [st |-> "blocked", keys |-> keys, values |-> values]
    /\ UNCHANGED <<db, txns, wtxn, gen, last, hist, env, flushed>>

\* with lock=False the waiting call begins at once, over the transaction
\* that is open
SetMultiUnblocked_nolock ==
    /\ pend.st = "blocked"
    /\ WithinAcc(pend.keys)
    /\ txns' = env_begin(txns, Writer)
    /\ wtxn' = begin_write(pend.keys, pend.values, TRUE)
    /\ pend' = NoCall
    /\ UNCHANGED <<db, gen, last, hist, env, flushed>>

\* the writer lock is free: the waiting call gets its write transaction;
\* if the environment was closed under it, the call raises
SetMultiUnblocked ==
    /\ pend.st \in {"blocked", "invalid"}
    /\ IF pend.st = "blocked"
       THEN /\ Writer \notin txns
            /\ wtxn.st = "none"
            /\ WithinAcc(pend.keys)
            /\ txns' = env_begin(txns, Writer)
            /\ wtxn' = begin_write(pend.keys, pend.values, TRUE)
            /\ UNCHANGED last
       ELSE /\ last' = Outcome("set_multi", Raise("Error"))
            /\ UNCHANGED <<txns, wtxn>>
    /\ pend' = NoCall
    /\ UNCHANGED <<db, gen, hist, env, flushed>>

\* the loop reading the committed entries instead of its own transaction
SetMultiPair_stale ==
    /\ wtxn.st = "open"
    /\ wtxn.pos < Len(wtxn.keys)
    /\ LET key == wtxn.keys[wtxn.pos + 1]
           value == wtxn.values[wtxn.pos + 1]
           val == decompress(txn_get(db, serialize(key)))
       IN IF val.t = "list"
          THEN /\ wtxn' = [wtxn EXCEPT
                     !.pos = @ + 1,
                     !.view = txn_put(@, serialize(key),
                                      compress(PyList(Append(val.v, value)))),
                     !.obs = [wtxn.obs EXCEPT ![key] = histAppend(wtxn.obs[key], value)]]
               /\ UNCHANGED <<txns, last, db>>
          ELSE /\ wtxn' = NoTxn
               /\ txns' = txn_exit(txns, Writer)
               /\ last' = OutcomeAt("set_multi",
                                    IF val.t = "raise" THEN val
                                    ELSE Raise("AttributeError"),
                                    wtxn.pos)
               /\ UNCHANGED db
    /\ UNCHANGED <<gen, hist, env, pend, flushed>>

\* the loop committing every pair in a transaction of its own
SetMultiPair_autocommit ==
    /\ wtxn.st = "open"
    /\ wtxn.pos < Len(wtxn.keys)
    /\ LET key == wtxn.keys[wtxn.pos + 1]
           value == wtxn.values[wtxn.pos + 1]
           val == decompress(txn_get(wtxn.view, serialize(key)))
       IN IF val.t = "list"
          THEN /\ wtxn' = [wtxn EXCEPT
                     !.pos = @ + 1,
                     !.view = txn_put(@, serialize(key),
                                      compress(PyList(Append(val.v, value)))),
                     !.obs = [wtxn.obs EXCEPT ![key] = histAppend(wtxn.obs[key], value)]]
               /\ db' = txn_put(wtxn.view, serialize(key),
                                compress(PyList(Append(val.v, value))))
               /\ UNCHANGED <<txns, last>>
          ELSE /\ wtxn' = NoTxn
               /\ txns' = txn_exit(txns, Writer)
               /\ last' = OutcomeAt("set_multi",
                                    IF val.t = "raise" THEN val
                                    ELSE Raise("AttributeError"),
                                    wtxn.pos)
               /\ UNCHANGED db
    /\ UNCHANGED <<gen, hist, env, pend, flushed>>

\* the loop whose failure keeps what the earlier pairs have put
SetMultiPair_partial ==
    /\ wtxn.st = "open"
    /\ wtxn.pos < Len(wtxn.keys)
    /\ LET key == wtxn.keys[wtxn.pos + 1]
           value == wtxn.values[wtxn.pos + 1]
           val == decompress(txn_get(wtxn.view, serialize(key)))
       IN IF val.t = "list"
          THEN /\ wtxn' = [wtxn EXCEPT
                     !.pos = @ + 1,
                     !.view = txn_put(@, serialize(key),
                                      compress(PyList(Append(val.v, value)))),
                     !.obs = [wtxn.obs EXCEPT ![key] = histAppend(wtxn.obs[key], value)]]
               /\ UNCHANGED <<txns, last, db>>
          ELSE /\ wtxn' = NoTxn
               /\ txns' = txn_exit(txns, Writer)
               /\ last' = OutcomeAt("set_multi",
                                    IF val.t = "raise" THEN val
                                    ELSE Raise("AttributeError"),
                                    wtxn.pos)
               /\ db' = wtxn.view
    /\ UNCHANGED <<gen, hist, env, pend, flushed>>

\* the loop starting a new list where the stored value is not a list
SetMultiPair_replace ==
    /\ wtxn.st = "open"
    /\ wtxn.pos < Len(wtxn.keys)
    /\ LET key == wtxn.keys[wtxn.pos + 1]
           value == wtxn.values[wtxn.pos + 1]
           val == decompress(txn_get(wtxn.view, serialize(key)))
       IN IF val.t = "list"
          THEN wtxn' = [wtxn EXCEPT
                     !.pos = @ + 1,
                     !.view = txn_put(@, serialize(key),
                                      compress(PyList(Append(val.v, value)))),
                     !.obs = [wtxn.obs EXCEPT ![key] = histAppend(wtxn.obs[key], value)]]
          ELSE wtxn' = [wtxn EXCEPT
                     !.pos = @ + 1,
                     !.view = txn_put(@, serialize(key),
                                      compress(PyList(<<value>>))),
                     !.obs = [wtxn.obs EXCEPT ![key] = ByMulti(<<value>>)]]
    /\ UNCHANGED <<db, txns, last, gen, hist, env, pend, flushed>>

\* one iteration of the loop over zip(keys, values)
SetMultiPair ==
    /\ wtxn.st = "open"
    /\ wtxn.pos < Len(wtxn.keys)
    /\ LET key == wtxn.keys[wtxn.pos + 1]
           value == wtxn.values[wtxn.pos + 1]
           val == decompress(txn_get(wtxn.view, serialize(key)))
       IN IF val.t = "list"
          THEN /\ wtxn' = [wtxn EXCEPT
                     !.pos = @ + 1,
                     !.view = txn_put(@, serialize(key),
                                      compress(PyList(Append(val.v, value)))),
                     !.obs = [wtxn.obs EXCEPT ![key] = histAppend(wtxn.obs[key], value)]]
               /\ UNCHANGED <<txns, last>>
          ELSE \* val.append raises: the transaction is aborted
               /\ wtxn' = NoTxn
               /\ txns' = txn_exit(txns, Writer)
               /\ last' = OutcomeAt("set_multi",
                                    IF val.t = "raise" THEN val
                                    ELSE Raise("AttributeError"),
                                    wtxn.pos)
    /\ UNCHANGED <<db, gen, hist, env, pend, flushed>>

\* the loop is over: the transaction commits
SetMultiCommit ==
    /\ wtxn.st = "open"
    /\ wtxn.pos = Len(wtxn.keys)
    /\ db' = wtxn.view
    /\ hist' = wtxn.obs
    /\ wtxn' = NoTxn
    /\ txns' = txn_exit(txns, Writer)
    /\ last' = IF wtxn.waited THEN OutcomeWaited(wtxn.pos)
                ELSE OutcomeAt("set_multi", PyNone, wtxn.pos)
    /\ UNCHANGED <<gen, env, pend, flushed>>

\* the environment was closed under the running call: its transaction is
\* no longer valid and the next cursor operation, or the commit, raises
SetMultiInvalid ==
    /\ wtxn.st = "invalid"
    /\ wtxn' = NoTxn
    /\ last' = OutcomeAt("set_multi", Raise("Error"), wtxn.pos)
    /\ UNCHANGED <<db, txns, gen, hist, env, pend, flushed>>

----------------------------------------------------------------------------
(* Generators: keys, values, items, get_multi.  Calling the method only   *)
(* makes the generator object; its body, and so its read transaction,     *)
(* starts at the first next().  The transaction is released when the body *)
(* runs to its end or when the generator is closed or finalized.          *)

Kinds == {"keys", "values", "items", "get_multi"}

\* what the body yields at entry key of the snapshot
yield_keys(snap, key) == deserialize(key)
yield_values(snap, key) == decompress(snap[key])
yield_items(snap, key) == <<deserialize(key), decompress(snap[key])>>
\* get_multi yielding what the cursor returned for a missing key
yield_get_multi_raw(snap, key) ==
    decompress_no_default(txn_get(snap, serialize(key)))

\* what get_multi yields for an input key
yield_get_multi(snap, key) == decompress(txn_get(snap, serialize(key)))

\* calling the method runs none of its body, whatever the handle's state;
\* the generator of a closed handle is invalid from the start
GenCall(i, kind, keys) ==
    /\ gen[i].st \in {"none", "done", "closed", "raised"}
    /\ gen' = [gen EXCEPT ![i] =
                 IF env.st = "open"
                 THEN [st |-> "created", kind |-> kind, keys |-> keys,
                       snap |-> <<>>, cur |-> NoBytes, out |-> <<>>,
                       abandoned |-> FALSE]
                 ELSE [st |-> "invalid"]]
    /\ UNCHANGED <<db, txns, wtxn, last, hist, env, pend, flushed>>

\* a cursor generator that begins a new transaction at every next()
GenNextCursor_live(i) ==
    LET g == gen[i]
        snap == db
        key == cursor_next(snap, g.cur)
    IN /\ g.st \in {"created", "suspended"}
       /\ ~g.abandoned
       /\ g.kind \in {"keys", "values", "items"}
       /\ IF key = NoBytes
          THEN /\ gen' = [gen EXCEPT ![i].st = "done", ![i].snap = snap]
               /\ txns' = txn_exit(env_begin(txns, Reader(i)), Reader(i))
          ELSE /\ gen' = [gen EXCEPT
                     ![i].st = "suspended", ![i].snap = snap, ![i].cur = key,
                     ![i].out = Append(@,
                         CASE g.kind = "keys" -> yield_keys(snap, key)
                           [] g.kind = "values" -> yield_values(snap, key)
                           [] g.kind = "items" -> yield_items(snap, key))]
               /\ txns' = env_begin(txns, Reader(i))
       /\ UNCHANGED <<db, wtxn, last, hist, env, pend, flushed>>

\* next() on a cursor generator: resume the body up to the next yield or
\* to its end
GenNextCursor(i) ==
    LET g == gen[i]
        snap == IF g.st = "created" THEN db ELSE g.snap
        key == cursor_next(snap, g.cur)
    IN /\ g.st \in {"created", "suspended"}
       /\ ~g.abandoned
       /\ g.kind \in {"keys", "values", "items"}
       /\ IF key = NoBytes
          THEN /\ gen' = [gen EXCEPT ![i].st = "done", ![i].snap = snap]
               /\ txns' = txn_exit(env_begin(txns, Reader(i)), Reader(i))
          ELSE /\ gen' = [gen EXCEPT
                     ![i].st = "suspended", ![i].snap = snap, ![i].cur = key,
                     ![i].out = Append(@,
                         CASE g.kind = "keys" -> yield_keys(snap, key)
                           [] g.kind = "values" -> yield_values(snap, key)
                           [] g.kind = "items" -> yield_items(snap, key))]
               /\ txns' = env_begin(txns, Reader(i))
       /\ UNCHANGED <<db, wtxn, last, hist, env, pend, flushed>>

\* a get_multi generator that begins a new transaction for every key
GenNextMulti_live(i) ==
    LET g == gen[i]
        snap == db
    IN /\ g.st \in {"created", "suspended"}
       /\ ~g.abandoned
       /\ g.kind = "get_multi"
       /\ IF Len(g.out) = Len(g.keys)
          THEN /\ gen' = [gen EXCEPT ![i].st = "done", ![i].snap = snap]
               /\ txns' = txn_exit(env_begin(txns, Reader(i)), Reader(i))
          ELSE /\ gen' = [gen EXCEPT
                     ![i].st = "suspended", ![i].snap = snap,
                     ![i].out = Append(@,
                         yield_get_multi(snap, g.keys[Len(g.out) + 1]))]
               /\ txns' = env_begin(txns, Reader(i))
       /\ UNCHANGED <<db, wtxn, last, hist, env, pend, flushed>>

\* next() on a get_multi generator
GenNextMulti(i) ==
    LET g == gen[i]
        snap == IF g.st = "created" THEN db ELSE g.snap
    IN /\ g.st \in {"created", "suspended"}
       /\ ~g.abandoned
       /\ g.kind = "get_multi"
       /\ IF Len(g.out) = Len(g.keys)
          THEN /\ gen' = [gen EXCEPT ![i].st = "done", ![i].snap = snap]
               /\ txns' = txn_exit(env_begin(txns, Reader(i)), Reader(i))
          ELSE /\ gen' = [gen EXCEPT
                     ![i].st = "suspended", ![i].snap = snap,
                     ![i].out = Append(@,
                         yield_get_multi(snap, g.keys[Len(g.out) + 1]))]
               /\ txns' = env_begin(txns, Reader(i))
       /\ UNCHANGED <<db, wtxn, last, hist, env, pend, flushed>>

\* the consumer breaks out of its loop: the generator object stays as it is
GenBreak(i) ==
    /\ gen[i].st \in {"created", "suspended"}
    /\ ~gen[i].abandoned
    /\ gen' = [gen EXCEPT ![i].abandoned = TRUE]
    /\ UNCHANGED <<db, txns, wtxn, last, hist, env, pend, flushed>>

\* close(), or finalization once the object is unreachable: GeneratorExit
\* is raised at the yield and leaves the with blocks
GenClose(i) ==
    /\ gen[i].st \in {"created", "suspended", "invalid"}
    /\ gen' = [gen EXCEPT ![i] = [st |-> "closed"]]
    /\ txns' = txn_exit(txns, Reader(i))
    /\ UNCHANGED <<db, wtxn, last, hist, env, pend, flushed>>

\* next() on a generator whose environment was closed: env.begin, or the
\* cursor of the invalidated transaction, raises and nothing is yielded
GenNextInvalid(i) ==
    /\ gen[i].st = "invalid"
    /\ gen' = [gen EXCEPT ![i] = [st |-> "raised", err |-> Raise("Error")]]
    /\ UNCHANGED <<db, txns, wtxn, last, hist, env, pend, flushed>>

----------------------------------------------------------------------------
(* The handle: flush, close, the context manager, a new handle on the     *)
(* same path, and the end of the process.  The environment is opened with *)
(* sync=False and flush calls env.sync() without force: neither forces    *)
(* the pages out, and the committed entries are the file's content as the *)
(* operating system holds it, which outlives the handle and the process.  *)

Closed == [st |-> "closed", readonly |-> FALSE]

Flush ==
    /\ LET err == env_sync_raises(env) IN
       IF err = PyNone
       THEN /\ last' = Outcome("flush", PyNone)
            /\ flushed' = [st |-> "done", image |-> db, obs |-> hist]
       ELSE /\ last' = Outcome("flush", err)
            /\ UNCHANGED flushed
    /\ UNCHANGED <<db, txns, wtxn, gen, hist, env, pend>>

\* env.close(): the transactions, cursors and iterators of the environment
\* become invalid; closing again has no effect
Close ==
    /\ env' = Closed
    /\ txns' = IF env.st = "open" THEN {} ELSE txns
    /\ wtxn' = IF wtxn.st = "open"
                THEN [st |-> "invalid", pos |-> wtxn.pos] ELSE wtxn
    /\ gen' = [i \in GenIds |->
                 IF gen[i].st \in {"created", "suspended"}
                 THEN [st |-> "invalid"] ELSE gen[i]]
    /\ pend' = IF pend.st = "blocked" THEN [st |-> "invalid"] ELSE pend
    /\ last' = Outcome("close", PyNone)
    /\ UNCHANGED <<db, hist, flushed>>

\* __exit__ of the context manager
Exit == Close

\* a new handle that starts from an empty environment
Open_fresh(readonly) ==
    /\ env.st = "closed"
    /\ env' = Opened(readonly)
    /\ db' = <<>>
    /\ last' = OutcomeOpen(last.op)
    /\ UNCHANGED <<txns, wtxn, gen, hist, pend, flushed>>

\* LMDBStore(path, readonly=...) on the path of the closed handle
Open(readonly) ==
    /\ env.st = "closed"
    /\ env' = Opened(readonly)
    /\ last' = OutcomeOpen(last.op)
    /\ UNCHANGED <<db, txns, wtxn, gen, hist, pend, flushed>>

\* the process ends abruptly: its handle, transactions and generators are
\* gone, an uncommitted write transaction with them
Terminate ==
    /\ env.st = "open"
    /\ env' = Closed
    /\ txns' = {}
    /\ wtxn' = NoTxn
    /\ gen' = [i \in GenIds |-> NoGen]
    /\ pend' = NoCall
    /\ last' = Outcome("terminate", PyNone)
    /\ UNCHANGED <<db, hist, flushed>>

----------------------------------------------------------------------------

\* the single-key operations and set_multi
Next ==
    \/ \E key \in Keys : GetItem(key)
    \/ \E key \in Keys : Contains(key)
    \/ \E key \in Keys, value \in Values : SetItem(key, value)
    \/ \E key \in Keys : DelItem(key)
    \/ \E kv \in CoreMismatches : SetMultiMismatch(kv[1], kv[2])
    \/ \E kv \in CoreBatches : SetMultiBegin(kv[1], kv[2])
    \/ SetMultiPair
    \/ SetMultiCommit

Spec == Init /\ [][Next]_vars

\* the writes, interleaved with keys, values and items
NextIter ==
    \/ \E key \in IterKeys, value \in IterValues : SetItem(key, value)
    \/ \E key \in IterKeys : DelItem(key)
    \/ \E kv \in IterBatches : SetMultiBegin(kv[1], kv[2])
    \/ SetMultiPair
    \/ SetMultiCommit
    \/ \E i \in GenIds :
          \/ \E kind \in Kinds \ {"get_multi"} : GenCall(i, kind, <<>>)
          \/ GenNextCursor(i)
          \/ GenBreak(i)
          \/ GenClose(i)

SpecIter == Init /\ [][NextIter]_vars

\* set_multi interleaved with the reads get, contains and get_multi
NextMulti ==
    \/ \E key \in IterKeys : GetItem(key)
    \/ \E key \in IterKeys : Contains(key)
    \/ \E kv \in IterBatches : SetMultiBegin(kv[1], kv[2])
    \/ SetMultiPair
    \/ SetMultiCommit
    \/ \E i \in GenIds :
          \/ \E keys \in IterKeySeqs : GenCall(i, "get_multi", keys)
          \/ GenNextMulti(i)
          \/ GenBreak(i)
          \/ GenClose(i)

SpecMulti == Init /\ [][NextMulti]_vars

\* set and delete over three keys, interleaved with keys, values and items
NextOrder ==
    \/ \E key \in AllKeys, value \in IterValues \cup IterMultiValues :
          SetItem(key, value)
    \/ \E key \in AllKeys : DelItem(key)
    \/ \E i \in GenIds :
          \/ \E kind \in Kinds \ {"get_multi"} : GenCall(i, kind, <<>>)
          \/ GenNextCursor(i)
          \/ GenClose(i)

SpecOrder == Init /\ [][NextOrder]_vars

\* len, contains and get beside the writes; set also stores the empty list
NextCount ==
    \/ \E key \in AllKeys : GetItem(key)
    \/ \E key \in AllKeys : Contains(key)
    \/ Length
    \/ \E key \in AllKeys, value \in CountValues : SetItem(key, value)
    \/ \E key \in AllKeys : DelItem(key)
    \/ \E kv \in IterBatches : SetMultiBegin(kv[1], kv[2])
    \/ SetMultiPair
    \/ SetMultiCommit

SpecCount == Init /\ [][NextCount]_vars

\* set and delete, interleaved with get_multi
NextLookup ==
    \/ \E key \in IterKeys, value \in CountValues : SetItem(key, value)
    \/ \E key \in IterKeys : DelItem(key)
    \/ \E i \in GenIds :
          \/ \E keys \in IterKeySeqs : GenCall(i, "get_multi", keys)
          \/ GenNextMulti(i)
          \/ GenClose(i)

SpecLookup == Init /\ [][NextLookup]_vars

\* the writes beside flush, close, the end of the process and a new handle
NextDurable ==
    \/ \E key \in IterKeys : GetItem(key)
    \/ \E key \in IterKeys, value \in IterValues : SetItem(key, value)
    \/ \E key \in IterKeys : DelItem(key)
    \/ \E kv \in IterBatches : SetMultiBegin(kv[1], kv[2])
    \/ SetMultiPair
    \/ SetMultiCommit
    \/ SetMultiInvalid
    \/ Flush
    \/ Close
    \/ Exit
    \/ \E readonly \in BOOLEAN : Open(readonly)
    \/ Terminate

SpecDurable == Init /\ [][NextDurable]_vars

\* every call, on an open handle and on a closed one
NextClosed ==
    \/ \E key \in HandleKeys : GetItem(key)
    \/ \E key \in HandleKeys : Contains(key)
    \/ Length
    \/ \E key \in HandleKeys, value \in IterValues : SetItem(key, value)
    \/ \E key \in HandleKeys : DelItem(key)
    \/ \E kv \in CoreMismatches : SetMultiMismatch(kv[1], kv[2])
    \/ \E kv \in HandleBatches : SetMultiBegin(kv[1], kv[2])
    \/ SetMultiPair
    \/ SetMultiCommit
    \/ SetMultiInvalid
    \/ Flush
    \/ \E i \in GenIds :
          \/ \E kind \in Kinds \ {"get_multi"} : GenCall(i, kind, <<>>)
          \/ \E keys \in HandleKeySeqs : GenCall(i, "get_multi", keys)
          \/ GenNextCursor(i)
          \/ GenNextMulti(i)
          \/ GenNextInvalid(i)
          \/ GenClose(i)
    \/ Close
    \/ Exit
    \/ Open(FALSE)

SpecClosed == Init /\ [][NextClosed]_vars

\* the reads and the writes on handles opened writable and read-only
NextReadonly ==
    \/ \E key \in IterKeys : GetItem(key)
    \/ \E key \in IterKeys : Contains(key)
    \/ Length
    \/ \E key \in IterKeys, value \in IterValues : SetItem(key, value)
    \/ \E key \in IterKeys : DelItem(key)
    \/ \E kv \in CoreMismatches : SetMultiMismatch(kv[1], kv[2])
    \/ \E kv \in HandleBatches : SetMultiBegin(kv[1], kv[2])
    \/ SetMultiPair
    \/ SetMultiCommit
    \/ SetMultiInvalid
    \/ \E i \in GenIds :
          \/ GenCall(i, "items", <<>>)
          \/ GenNextCursor(i)
          \/ GenNextInvalid(i)
          \/ GenClose(i)
    \/ Close
    \/ \E readonly \in BOOLEAN : Open(readonly)

SpecReadonly == Init /\ [][NextReadonly]_vars

\* the reads beside writes that store None, the empty list and a scalar
NextRead ==
    \/ \E key \in IterKeys : GetItem(key)
    \/ \E key \in IterKeys, value \in ReadValues : SetItem(key, value)
    \/ \E key \in IterKeys : DelItem(key)
    \/ \E i \in GenIds :
          \/ \E kind \in {"values", "items"} : GenCall(i, kind, <<>>)
          \/ \E keys \in IterKeySeqs : GenCall(i, "get_multi", keys)
          \/ GenNextCursor(i)
          \/ GenNextMulti(i)
          \/ GenClose(i)

SpecRead == Init /\ [][NextRead]_vars

\* set_multi called by two threads: the second call waits for the writer
\* lock while the first one runs
NextWriters ==
    \/ \E key \in HandleKeys : GetItem(key)
    \/ \E key \in HandleKeys : DelItem(key)
    \/ \E kv \in WriterBatches : SetMultiBegin(kv[1], kv[2])
    \/ \E kv \in WriterBatches : SetMultiBlocked(kv[1], kv[2])
    \/ SetMultiUnblocked
    \/ SetMultiPair
    \/ SetMultiCommit

SpecWriters == Init /\ [][NextWriters]_vars

\* every call on an open handle over two keys: the scalar set writes KeyAA,
\* set_multi and get_multi are given KeyB, delete is given either
NextFrame ==
    \/ \E key \in {KeyB} : GetItem(key)
    \/ \E key \in {KeyAA} : Contains(key)
    \/ Length
    \/ Flush
    \/ \E key \in {KeyAA}, value \in IterValues : SetItem(key, value)
    \/ \E key \in IterKeys : DelItem(key)
    \/ \E kv \in HandleBatches : SetMultiBegin(kv[1], kv[2])
    \/ SetMultiPair
    \/ SetMultiCommit
    \/ \E i \in GenIds :
          \/ \E kind \in Kinds \ {"get_multi"} : GenCall(i, kind, <<>>)
          \/ \E keys \in FrameKeySeqs : GenCall(i, "get_multi", keys)
          \/ GenNextCursor(i)
          \/ GenNextMulti(i)
          \/ GenClose(i)

SpecFrame == Init /\ [][NextFrame]_vars

----------------------------------------------------------------------------
(* Properties of the single-key operations and of set_multi (Spec) *)

\* C1: a key whose latest write was set(k, v), not deleted since, reads back
\* as exactly v, whatever it held before the set
C1_SetThenGet ==
    \A k \in AllKeys : hist[k].how = "set" => getitem(db, k) = hist[k].val

\* a set has just replaced a list accumulated by set_multi and both keys
\* hold values written by set
C1_Witness ==
    /\ last.op = "set"
    /\ last.was = "multi"
    /\ \A k \in Keys : hist[k].how = "set" /\ getitem(db, k) = hist[k].val

\* C2: a key never written, or written and deleted, reads as the empty
\* list: no exception, no None
C2_MissingKeyDefault ==
    \A k \in AllKeys : hist[k].how = "absent" => getitem(db, k) = PyList(<<>>)

\* a delete has just removed the last entry: every key reads as the
\* empty list
C2_Witness ==
    /\ last = Outcome("del", PyNone)
    /\ \A k \in AllKeys : hist[k].how = "absent" /\ getitem(db, k) = PyList(<<>>)

\* C3: a key that was absent and then only appended to by set_multi reads
\* as the list of the appended values in call order and, within a call, in
\* input order; the same holds inside the transaction of a running call
C3_Accumulation ==
    /\ \A k \in AllKeys :
          hist[k].how = "multi" => getitem(db, k) = PyList(hist[k].val)
    /\ wtxn.st = "open" =>
          \A k \in AllKeys :
              wtxn.obs[k].how = "multi" =>
                  getitem(wtxn.view, k) = PyList(wtxn.obs[k].val)

\* one set_multi call gave KeyB twice, with two different values, when
\* the store was empty
C3_Witness ==
    /\ last = OutcomeAt("set_multi", PyNone, 2)
    /\ hist[KeyAA].how = "absent"
    /\ hist[KeyB] = ByMulti(<<PyStr(<<120>>), PyInt(1)>>)
    /\ getitem(db, KeyB) = PyList(<<PyStr(<<120>>), PyInt(1)>>)

\* C4: a set_multi that fails leaves the committed entries as they were
\* before the call, also when earlier pairs were put; one that succeeds
\* applies every pair; nothing is committed while the call runs
C4_AllOrNothing ==
    /\ [](wtxn.st = "open" => db = wtxn.pre)
    /\ [][(wtxn.st = "open" /\ wtxn'.st = "none") =>
            IF last'.res.t = "raise"
            THEN db' = wtxn.pre
            ELSE /\ wtxn.pos = Len(wtxn.keys)
                 /\ \A k \in AllKeys : getitem(db', k) = Expected(wtxn.obs[k])]_vars

\* a set_multi has just failed after putting its first pair
C4_Witness ==
    /\ last = OutcomeAt("set_multi", Raise("AttributeError"), 1)
    /\ db # <<>>

\* C5: set_multi with lists of different lengths raises ValueError and
\* opens no transaction and writes nothing: every key is as before
C5_LengthMismatch ==
    /\ [](wtxn.st = "open" => Len(wtxn.keys) = Len(wtxn.values))
    /\ [][(last' # last /\ last' = Outcome("set_multi", Raise("ValueError"))) =>
            /\ db' = db
            /\ txns' = txns
            /\ wtxn' = wtxn]_vars

\* a mismatched set_multi has just raised on the empty store
C5_Witness ==
    /\ last = Outcome("set_multi", Raise("ValueError"))
    /\ \A k \in AllKeys : ~contains(db, k) /\ getitem(db, k) = PyList(<<>>)

\* C6: del of a present key removes it (contains is false, get gives the
\* empty list); del of an absent key raises KeyError and changes nothing
C6_Delete ==
    [][\A k \in Keys :
          DelItem(k) =>
              IF hist[k].how # "absent"
              THEN /\ last'.res = PyNone
                   /\ ~contains(db', k)
                   /\ getitem(db', k) = PyList(<<>>)
              ELSE /\ last'.res = Raise("KeyError")
                   /\ db' = db]_vars

\* a del has just raised KeyError while the other key is present
C6_Witness ==
    /\ last = Outcome("del", Raise("KeyError"))
    /\ \E k \in Keys : hist[k].how # "absent" /\ contains(db, k)

----------------------------------------------------------------------------
(* Properties of the reads that run beside a set_multi (SpecMulti) *)

\* C7: while a set_multi runs, the committed entries are those from before
\* the call, so a get sees none of its writes and a get_multi transaction
\* begun meanwhile has the entries from before the call; all elements of a
\* get_multi come from the entries it began with; the commit publishes
\* every pair at once
C7_NoPartialView ==
    /\ [](wtxn.st = "open" => db = wtxn.pre)
    /\ [](\A i \in GenIds :
            gen[i].st \in {"suspended", "done"} =>
                \A j \in DOMAIN gen[i].out :
                    gen[i].out[j] = getitem(gen[i].snap, gen[i].keys[j]))
    /\ [][/\ \A i \in GenIds :
                (gen[i].st = "created" /\ gen'[i].st \in {"suspended", "done"})
                    => gen'[i].snap = IF wtxn.st = "open" THEN wtxn.pre ELSE db
          /\ (wtxn.st = "open" /\ last' # last /\ last'.op = "get")
                => \E k \in IterKeys : last'.res = getitem(wtxn.pre, k)
          /\ (wtxn.st = "open" /\ db' # db)
                => /\ wtxn'.st = "none"
                   /\ wtxn.pos = Len(wtxn.keys)
                   /\ \A k \in AllKeys : getitem(db', k) = Expected(wtxn.obs[k])]_vars

\* a get_multi has yielded the committed value of the key that the first
\* pair of a running two-pair set_multi has already put
C7_Witness ==
    /\ wtxn.st = "open"
    /\ Len(wtxn.keys) = 2
    /\ wtxn.pos = 1
    /\ \E i \in GenIds :
          /\ gen[i].st = "suspended"
          /\ gen[i].kind = "get_multi"
          /\ Len(gen[i].keys) = 2
          /\ gen[i].keys[1] = wtxn.keys[1]
          /\ gen[i].out = <<getitem(db, wtxn.keys[1])>>
          /\ gen[i].out # <<getitem(wtxn.view, wtxn.keys[1])>>

----------------------------------------------------------------------------
(* Properties of keys, values and items (SpecIter, SpecOrder) *)

\* the keys of view in ascending byte order of their serialized form
Listing(view) ==
    CHOOSE s \in SeqsOf(AllKeys, 0, Cardinality(AllKeys)) :
        /\ Len(s) = Cardinality(DOMAIN view)
        /\ \A j \in DOMAIN s : serialize(s[j]) \in DOMAIN view
        /\ \A j \in 1..(Len(s) - 1) :
              BytesLess(serialize(s[j]), serialize(s[j + 1]))

\* what a generator of the given kind yields over view, from first to last
Sequence(kind, view) ==
    LET s == Listing(view) IN
    [j \in 1..Len(s) |->
        CASE kind = "keys" -> s[j]
          [] kind = "values" -> getitem(view, s[j])
          [] kind = "items" -> <<s[j], getitem(view, s[j])>>]

\* C8: a keys, values or items generator takes the committed entries when
\* its transaction begins, keeps that snapshot until it ends, and yields
\* only from it: what it has yielded is always the beginning of the
\* sequence of its snapshot, whatever was committed meanwhile
C8_SnapshotIteration ==
    /\ [](\A i \in GenIds :
            gen[i].st \in {"suspended", "done"} =>
                gen[i].out = SubSeq(Sequence(gen[i].kind, gen[i].snap),
                                    1, Len(gen[i].out)))
    /\ [][\A i \in GenIds :
            /\ (gen[i].st = "created" /\ gen'[i].st \in {"suspended", "done"})
                  => gen'[i].snap = db
            /\ (gen[i].st = "suspended" /\ gen'[i].st \in {"suspended", "done"})
                  => gen'[i].snap = gen[i].snap]_vars

\* a generator has yielded its second element after a write changed the
\* committed entries under it
C8_Witness ==
    \E i \in GenIds :
        /\ gen[i].st = "suspended"
        /\ Len(gen[i].out) = 2
        /\ gen[i].snap # db
        /\ Reader(i) \in txns

\* C9 (as claimed): only a running set_multi and the generators that are
\* suspended and still being consumed hold a transaction
C9_TxnReleased ==
    txns \subseteq
        ({w \in {Writer} : wtxn.st = "open"}
         \cup {Reader(i) : i \in {j \in GenIds :
                    gen[j].st = "suspended" /\ ~gen[j].abandoned}})

\* C10: a keys, values or items generator that ran to its end has yielded
\* one element for every key of its snapshot, in ascending byte order of
\* the serialized keys, the values being those get returns on the snapshot
C10_ItemsOrder ==
    \A i \in GenIds :
        gen[i].st = "done" => gen[i].out = Sequence(gen[i].kind, gen[i].snap)

\* items() has yielded the three keys with their values
C10_Witness ==
    \E i \in GenIds :
        /\ gen[i].st = "done"
        /\ gen[i].kind = "items"
        /\ gen[i].out = <<<<Key1, PyInt(200)>>, <<KeyB, PyInt(1)>>,
                          <<KeyAA, PyInt(200)>>>>

----------------------------------------------------------------------------
(* Properties of len and contains (SpecCount) *)

\* the keys that were written by set or set_multi and not deleted since
Present == {k \in AllKeys : hist[k].how # "absent"}

\* C11: len returns the number of distinct keys present: a key written
\* again by set or appended to by set_multi counts once, a deleted key not
\* at all, an uncommitted set_multi not yet
C11_Length ==
    (last.op = "len" /\ env.st = "open") => last.res = PyInt(Cardinality(Present))

\* len has returned 2 for a store with one key written by set and one
\* written by set and then appended to by set_multi
C11_Witness ==
    /\ last = Outcome("len", PyInt(2))
    /\ hist[Key1].how = "set"
    /\ hist[KeyB].how = "mixed"
    /\ hist[KeyAA].how = "absent"

\* C14: contains(k) is true exactly for the keys present, whatever they
\* hold
C14_Contains ==
    /\ [](\A k \in AllKeys : contains(db, k) <=> k \in Present)
    /\ [][\A k \in AllKeys :
            Contains(k) => last'.res = PyBool(k \in Present)]_vars

\* contains has returned true for the only key present, which holds the
\* empty list and reads like a missing key
C14_Witness ==
    /\ last = Outcome("contains", PyBool(TRUE))
    /\ hist[KeyB] = BySet(PyList(<<>>))
    /\ getitem(db, KeyB) = PyList(<<>>)
    /\ hist[KeyAA].how = "absent"

----------------------------------------------------------------------------
(* Properties of get_multi (SpecLookup) *)

\* C12: get_multi yields one value per input key, in input order, repeated
\* keys included: the value stored at the key in the entries its one
\* transaction began with, or the empty list if the key is not among them,
\* whatever is committed while it is consumed
C12_GetMulti ==
    /\ [](\A i \in GenIds :
            (gen[i].st \in {"suspended", "done"} /\ gen[i].kind = "get_multi") =>
                /\ Len(gen[i].out) <= Len(gen[i].keys)
                /\ gen[i].st = "done" => Len(gen[i].out) = Len(gen[i].keys)
                /\ \A j \in DOMAIN gen[i].out :
                      gen[i].out[j] =
                          IF serialize(gen[i].keys[j]) \in DOMAIN gen[i].snap
                          THEN decompress(gen[i].snap[serialize(gen[i].keys[j])])
                          ELSE PyList(<<>>))
    /\ [][\A i \in GenIds :
            (gen[i].st = "suspended" /\ gen'[i].st \in {"suspended", "done"})
                => /\ gen'[i].snap = gen[i].snap
                   /\ gen'[i].keys = gen[i].keys
                   /\ \/ gen'[i].out = gen[i].out
                      \/ /\ Len(gen'[i].out) = Len(gen[i].out) + 1
                         /\ SubSeq(gen'[i].out, 1, Len(gen[i].out)) = gen[i].out]_vars

\* get_multi was given the same absent key twice and has yielded the empty
\* list twice, although a set has committed a value for the key
C12_Witness ==
    \E i \in GenIds :
        /\ gen[i].st = "suspended"
        /\ gen[i].kind = "get_multi"
        /\ gen[i].keys = <<KeyB, KeyB>>
        /\ gen[i].out = <<PyList(<<>>), PyList(<<>>)>>
        /\ getitem(db, KeyB) = PyInt(200)

----------------------------------------------------------------------------
(* Properties of flush, close and a new handle (SpecDurable) *)

----------------------------------------------------------------------------
(* Properties of a closed handle (SpecClosed) *)

\* C18: once the handle is closed, by close or by the context manager,
\* get, set, del, contains, len, set_multi and flush raise, a set_multi
\* that was running raises, a generator made before or after the close
\* raises at its next() and yields nothing, no transaction is open, and
\* the committed entries stay as they are
C18_UseAfterClose ==
    /\ [](env.st = "closed" =>
            /\ txns = {}
            /\ wtxn.st # "open"
            /\ \A i \in GenIds : gen[i].st \notin {"created", "suspended"})
    /\ [][env.st = "closed" =>
            /\ db' = db
            /\ (last' # last /\ last'.op \notin {"open", "close"})
                  => last'.res.t = "raise"]_vars
    /\ [][/\ wtxn.st = "invalid" /\ wtxn' # wtxn
                => wtxn'.st = "none" /\ last'.res.t = "raise" /\ db' = db
          /\ \A i \in GenIds :
                (gen[i].st = "invalid" /\ gen'[i] # gen[i])
                    => gen'[i].st \in {"raised", "closed"} /\ db' = db]_vars

\* on a closed handle with an entry, get has just raised and a generator
\* has raised at its next()
C18_Witness ==
    /\ env.st = "closed"
    /\ last = Outcome("get", Raise("Error"))
    /\ db # <<>>
    /\ \E i \in GenIds : gen[i].st = "raised"

----------------------------------------------------------------------------
(* Properties of a read-only handle (SpecReadonly) *)

ReadOnly == env.st = "open" /\ env.readonly

\* C15: on a read-only handle set, del and set_multi raise in one step,
\* no write transaction begins and the committed entries stay as they
\* are; get, contains, len and items return what they return on a
\* writable handle
C15_ReadOnly ==
    /\ [][ReadOnly =>
            /\ db' = db
            /\ Writer \notin txns'
            /\ wtxn'.st # "open"
            /\ (last' # last /\ last'.op \in {"set", "del", "set_multi"})
                  => last'.res.t = "raise"
            /\ \A k \in IterKeys :
                  /\ GetItem(k) => last'.res = Expected(hist[k])
                  /\ Contains(k) => last'.res = PyBool(hist[k].how # "absent")
            /\ Length => last'.res = PyInt(Cardinality(DOMAIN db))
            /\ \A i \in GenIds :
                  gen'[i].st \in {"suspended", "done"} =>
                      \A j \in DOMAIN gen'[i].out :
                          gen'[i].out[j] =
                              <<gen'[i].out[j][1],
                                getitem(gen'[i].snap, gen'[i].out[j][1])>>]_vars

\* on a read-only handle with an entry, a set has just raised while a
\* generator of the handle has yielded an element
C15_Witness ==
    /\ ReadOnly
    /\ last = Outcome("set", Raise("ReadonlyError"))
    /\ db # <<>>
    /\ \E i \in GenIds : gen[i].st = "suspended" /\ Len(gen[i].out) = 1

----------------------------------------------------------------------------
(* Properties of the values read (SpecRead) *)

\* the values a generator has yielded: the elements of values and
\* get_multi, the second components of the elements of items
Yielded(g) ==
    IF g.st \notin {"suspended", "done"} THEN <<>>
    ELSE [j \in DOMAIN g.out |->
             IF g.kind = "items" THEN g.out[j][2] ELSE g.out[j]]

\* C16 (as claimed): no get and no element of values, items or get_multi
\* is None
C16_NeverNone ==
    /\ last.op = "get" => last.res.t # "nil"
    /\ \A i \in GenIds :
          \A j \in DOMAIN Yielded(gen[i]) : Yielded(gen[i])[j].t # "nil"

\* C16 (amended): a read never raises and gives the empty list, not None,
\* for a key that is not there; it gives None only where set stored None
C16_NoneOnlyIfStored ==
    /\ \A k \in AllKeys :
          LET r == getitem(db, k) IN
          /\ r.t # "raise"
          /\ hist[k].how = "absent" => r.t = "list" /\ r.v = <<>>
          /\ r.t = "nil" => hist[k].how = "set" /\ hist[k].val.t = "nil"
    /\ \A i \in GenIds :
          LET g == gen[i] IN
          \A j \in DOMAIN Yielded(g) :
              LET r == Yielded(g)[j] IN
              /\ r.t # "raise"
              /\ g.kind = "get_multi" =>
                    LET b == serialize(g.keys[j]) IN
                    /\ b \notin DOMAIN g.snap => r.t = "list" /\ r.v = <<>>
                    /\ r.t = "nil" =>
                          b \in DOMAIN g.snap /\ g.snap[b] = compress(PyNone)
              /\ g.kind = "items" =>
                    (r.t = "nil" =>
                        g.snap[serialize(g.out[j][1])] = compress(PyNone))
              /\ g.kind = "values" =>
                    (r.t = "nil" =>
                        \E b \in DOMAIN g.snap : g.snap[b] = compress(PyNone))

\* get_multi has yielded None for the key at which set stored None and
\* the empty list for the key that is not there
C16_Witness ==
    /\ hist[KeyB] = BySet(PyNone)
    /\ hist[KeyAA].how = "absent"
    /\ \E i \in GenIds :
          /\ gen[i].st = "suspended"
          /\ gen[i].kind = "get_multi"
          /\ gen[i].keys = <<KeyB, KeyAA>>
          /\ gen[i].out = <<PyNone, PyList(<<>>)>>

----------------------------------------------------------------------------
(* Properties of concurrent set_multi calls (SpecWriters) *)

RECURSIVE Appended(_, _, _)
\* the values a call set_multi(keys, values) gives for key k, in input
\* order
Appended(keys, values, k) ==
    IF keys = <<>> THEN <<>>
    ELSE (IF Head(keys) = k THEN <<Head(values)>> ELSE <<>>)
         \o Appended(Tail(keys), Tail(values), k)

\* C19: a set_multi that waited for the writer lock begins only when no
\* write transaction is open, on the entries committed by then; every
\* commit appends the values of its call, once each, to the lists
\* committed at that moment; so a key only appended to holds every value
\* appended, in commit order of the calls
C19_NoLostUpdate ==
    /\ [](\A k \in AllKeys :
            hist[k].how = "multi" =>
                /\ getitem(db, k).t = "list"
                /\ getitem(db, k).v = hist[k].val)
    /\ [][(pend.st = "blocked" /\ pend'.st = "none" /\ wtxn'.st = "open")
            => /\ wtxn.st = "none"
               /\ Writer \notin txns
               /\ wtxn'.view = db]_vars
    /\ [][(wtxn.st = "open" /\ wtxn'.st = "none" /\ last'.res.t = "nil")
            => \A k \in AllKeys :
                  LET app == Appended(wtxn.keys, wtxn.values, k) IN
                  IF app = <<>>
                  THEN txn_get(db', serialize(k)) = txn_get(db, serialize(k))
                  ELSE /\ getitem(db, k).t = "list"
                       /\ getitem(db', k).t = "list"
                       /\ getitem(db', k).v = getitem(db, k).v \o app]_vars

\* a call that waited for the lock has committed: its value follows the
\* one appended by the call it waited for
C19_Witness ==
    /\ last = OutcomeWaited(1)
    /\ hist[KeyB].how = "multi"
    /\ hist[KeyB].val = <<PyInt(1), PyStr(<<120>>)>>
    /\ getitem(db, KeyB).t = "list"
    /\ getitem(db, KeyB).v = <<PyInt(1), PyStr(<<120>>)>>

----------------------------------------------------------------------------
(* Properties of what a call leaves alone (SpecFrame) *)

\* the step leaves every entry alone whose key bytes are not among bs
Untouched(bs) ==
    \A b \in (DOMAIN db \cup DOMAIN db') \ bs :
        b \in DOMAIN db /\ b \in DOMAIN db' /\ db'[b] = db[b]

\* C20: the committed entries change only in a step of set, del or the
\* commit of set_multi, and then only at the keys the call was given;
\* get, contains, len, flush, get_multi, keys, values and items, and the
\* steps of a set_multi before its commit, change no entry
C20_Frame ==
    [][/\ db' # db =>
            \/ \E k \in IterKeys, v \in IterValues :
                  SetItem(k, v) /\ Untouched({serialize(k)})
            \/ \E k \in IterKeys : DelItem(k) /\ Untouched({serialize(k)})
            \/ /\ SetMultiCommit
               /\ Untouched({serialize(wtxn.keys[j]) : j \in DOMAIN wtxn.keys})
       /\ (last' # last /\ last'.op \in {"get", "contains", "len", "flush"})
            => db' = db
       /\ gen' # gen => db' = db]_vars

\* a set_multi given one key has committed its append while the other key
\* holds the value set wrote and a get_multi generator is suspended
C20_Witness ==
    /\ last = OutcomeAt("set_multi", PyNone, 1)
    /\ getitem(db, KeyB).t = "list"
    /\ getitem(db, KeyB).v = <<PyInt(1)>>
    /\ hist[KeyAA].how = "set"
    /\ getitem(db, KeyAA) = hist[KeyAA].val
    /\ \E i \in GenIds : gen[i].st = "suspended" /\ gen[i].kind = "get_multi"

====
